---- MODULE Spec2Model ----
(***************************************************************************)
(* A model of src/lerobot/check_baudrate.py: the serial baud-rate prober   *)
(* (check_baudrates), the Feetech motor pinger                             *)
(* (check_feetech_motor_baudrate), the bus scanner (scan_feetech_bus) and  *)
(* the register reader (check_feetech_motor_detailed).                     *)
(*                                                                         *)
(* One behaviour is one call of one routine.  Every call into pyserial or  *)
(* into scservo_sdk is one step whose outcome (a status, a value or a      *)
(* raised exception) is chosen nondeterministically; the 20 pings of one   *)
(* rate of the scanner are one step.  A handle counts as open from an      *)
(* openPort that returned true (or a serial.Serial that was constructed)   *)
(* until closePort (or the with-block's exit) is called on it.             *)
(*                                                                         *)
(* The environment: scservo_sdk is importable or not for the whole call;   *)
(* lerobot's own tables module is importable; closePort returns; the       *)
(* program writes no register, so the motor's model number and its         *)
(* baud-rate register keep one value during a call.                        *)
(***************************************************************************)
EXTENDS Integers, Sequences, FiniteSets, TLC

(***************************************************************************)
(* Bounds of the model.                                                    *)
(***************************************************************************)
\* How many SDK calls of one run may have a non-default outcome (a raised
\* exception, a failed openPort, an answered ping, a failed register read).
MaxEvents == 2
\* The baud-rate register of the attached motor holds a value 0..MaxRegValue.
MaxRegValue == 8
\* How many motors are attached to the bus the scanner sweeps.
NumLiveIds == 2

(***************************************************************************)
(* Values of the program that are not integers in Python.                  *)
(***************************************************************************)
\* "Unknown": feetech_baudrates.get(baudrate_value, "Unknown")
Unknown == -1
\* 'Unable to read': configured_baudrate of a record whose register read failed
UnableToRead == -2
\* None: register_value of a record whose register read failed
NoValue == -3

(***************************************************************************)
(* Tables of the program.                                                  *)
(***************************************************************************)
baudrates == <<9600, 19200, 38400, 57600, 115200, 250000, 500000, 1000000>>

\* The prober's list, highest first.
pinger_test_baudrates_AsProber ==
    <<1000000, 500000, 250000, 115200, 57600, 38400, 19200, 9600>>

pinger_test_baudrates ==
    <<1000000, 500000, 250000, 128000, 115200, 57600, 38400, 19200>>

scan_feetech_baudrates ==
    <<1000000, 500000, 250000, 128000, 115200, 57600, 38400, 19200>>

detailed_feetech_baudrates ==
    <<1000000, 500000, 250000, 128000, 115200, 57600, 38400, 19200>>

\* Mutant of pinger_feetech_baudrates: the table lacks 250000 and is shifted.
pinger_feetech_baudrates_Shifted(v) ==
    CASE v = 0 -> 1000000
      [] v = 1 -> 500000
      [] v = 2 -> 128000
      [] v = 3 -> 115200
      [] v = 4 -> 57600
      [] v = 5 -> 38400
      [] v = 6 -> 19200
      [] v = 7 -> 9600
      [] OTHER -> Unknown

\* dict.get(key, "Unknown") on the register-code table of the pinger
pinger_feetech_baudrates(v) ==
    CASE v = 0 -> 1000000
      [] v = 1 -> 500000
      [] v = 2 -> 250000
      [] v = 3 -> 128000
      [] v = 4 -> 115200
      [] v = 5 -> 57600
      [] v = 6 -> 38400
      [] v = 7 -> 19200
      [] OTHER -> Unknown

\* dict.get(key, "Unknown") on the register-code table of the register reader
baudrate_values(v) ==
    CASE v = 0 -> 1000000
      [] v = 1 -> 500000
      [] v = 2 -> 250000
      [] v = 3 -> 128000
      [] v = 4 -> 115200
      [] v = 5 -> 57600
      [] v = 6 -> 38400
      [] v = 7 -> 19200
      [] OTHER -> Unknown

\* lerobot.common.motors.feetech.tables.MODEL_NUMBER_TABLE, in dict order
MODEL_NUMBER_TABLE ==
    << <<"sts3215", 777>>, <<"sts3250", 2825>>, <<"scs0009", 1284>> >>

\* for name, num in MODEL_NUMBER_TABLE.items(): if num == model_number: ... break
RECURSIVE LookupFrom(_, _)
LookupFrom(n, model_number) ==
    IF n > Len(MODEL_NUMBER_TABLE) THEN "Unknown"
    ELSE IF MODEL_NUMBER_TABLE[n][2] = model_number
      THEN MODEL_NUMBER_TABLE[n][1]
    ELSE LookupFrom(n + 1, model_number)

ModelName(model_number) == LookupFrom(1, model_number)

\* The sequence of register reads of the register reader, in source order.
DetailedReads == <<6, 5, 0, 1, 9, 11, 56, 40>>

(***************************************************************************)
(* The environment: what is attached to the port.                          *)
(***************************************************************************)
\* The bus addresses at which a motor is attached (3, 7, 11, ...).
LiveIds == {4 * n - 1 : n \in 1 .. NumLiveIds}

\* The model numbers a motor may report: one of the table, one unknown to it.
ModelNumbers == {777, 0}

\* The motor_id arguments of the calls: the default and another one.
MotorIds == {1, 5}

Routines ==
    {"check_baudrates", "check_feetech_motor_baudrate",
     "scan_feetech_bus", "check_feetech_motor_detailed"}

VARIABLES
    routine,        \* the routine this run calls
    sdk,            \* whether "import scservo_sdk" succeeds
    motor_id,       \* the motor_id parameter; the scanner's loop variable
    motor_model,    \* the model number the attached motors report
    motor_baud_reg, \* the value the attached motor's register 6 holds
    pc,             \* the position in the routine
    i,              \* the index of the candidate rate in the routine's list
    next_read,      \* the index of the next read in DetailedReads
    npings,         \* how many pings the current attempt has sent
    port_handler,   \* the state of the handle object port_handler refers to
    open_handles,   \* how many handles are open (opened and not closed)
    ping_result,    \* the last ping answered: <<model_number>>, or <<>>
    successful_communications,
    motors_at_baudrate,
    found_motors,
    ret,            \* the routine's return value
    stdout,         \* the lines printed, as <<kind, baud rate>>
    tried,          \* the candidate rates whose attempt has begun, in order
    opened,         \* the candidate rates at which a handle was opened, in order
    responded,      \* the <<rate, id>> at which a ping answered success
    reads,          \* the register reads issued, in order, as
                    \* <<rate, address, "ok" | "failed" | "raised">>
    calls,          \* the calls made on a port handle, as <<method, state
                    \* of the handle when called>>
    events,         \* how many non-default outcomes happened
    main_calls,     \* the calls the entry point has made, in order
    returned        \* the kinds of value those calls returned, in order

vars ==
    <<routine, sdk, motor_id, motor_model, motor_baud_reg, pc, i, next_read,
      npings, port_handler, open_handles, ping_result, successful_communications,
      motors_at_baudrate, found_motors, ret, stdout, tried, opened,
      responded, reads, calls, events, main_calls, returned>>

\* What no step of a routine changes.
env == <<routine, sdk, motor_model, motor_baud_reg, main_calls, returned>>

Pending == [tag |-> "pending"]
None == [tag |-> "None"]
Bool(b) == [tag |-> "bool", val |-> b]
Record(r) == [tag |-> "record", val |-> r]
Mapping(m) == [tag |-> "mapping", val |-> m]

Emit(kind, rate) == stdout' = Append(stdout, <<kind, rate>>)

\* A method of port_handler, or a packet_handler method given port_handler,
\* is called: the log keeps the method and the state the handle was in.
Call(method) == calls' = calls \cup {<<method, port_handler>>}

\* What a call can depend on: the routine called, whether the SDK is
\* installed, and the model number and baud-rate register of the motor(s)
\* attached (only the motor pinger uses the value of the register).
Init ==
    /\ routine \in Routines
    /\ sdk \in (IF routine = "check_baudrates" THEN {TRUE} ELSE BOOLEAN)
    /\ motor_id \in
         (IF routine \in {"check_feetech_motor_baudrate",
                          "check_feetech_motor_detailed"}
            THEN MotorIds ELSE {1})
    /\ motor_model \in (IF routine = "check_baudrates" THEN {0} ELSE ModelNumbers)
    /\ motor_baud_reg \in
         (IF routine = "check_feetech_motor_baudrate"
            THEN 0 .. MaxRegValue ELSE {0})
    /\ pc = IF routine = "check_feetech_motor_detailed" THEN "import" ELSE "loop"
    /\ i = 1
    /\ next_read = 1
    /\ npings = 0
    /\ port_handler = "none"
    /\ open_handles = 0
    /\ ping_result = <<>>
    /\ successful_communications = <<>>
    /\ motors_at_baudrate = <<>>
    /\ found_motors = <<>>
    /\ ret = Pending
    /\ stdout = <<>>
    /\ tried = <<>>
    /\ opened = <<>>
    /\ responded = {}
    /\ reads = <<>>
    /\ calls = {}
    /\ events = 0
    /\ main_calls = <<>>
    /\ returned = <<>>

\* Mutant of SdkMissing: the ImportError is never seen.
SdkMissing_Never == FALSE

\* import scservo_sdk as scs raises ImportError
SdkMissing == ~sdk

\* A call with a non-default outcome is possible while the budget lasts.
MayFail == events < MaxEvents

Event == events' = events + 1

(***************************************************************************)
(* check_baudrates(port)                                                   *)
(***************************************************************************)
InProber == routine = "check_baudrates"

\* for baudrate in baudrates: try: with serial.Serial(port, baudrate, timeout=1)
ProberOpen ==
    /\ InProber /\ pc = "loop" /\ i <= Len(baudrates)
    /\ tried' = Append(tried, baudrates[i])
    /\ \/ /\ port_handler' = "open"
          /\ opened' = Append(opened, baudrates[i])
          /\ open_handles' = open_handles + 1
          /\ pc' = "with"
          /\ UNCHANGED <<i, stdout>>
       \/ /\ Emit("serial_exception", baudrates[i])
          /\ i' = i + 1
          /\ UNCHANGED <<pc, port_handler, open_handles, opened>>
       \/ /\ Emit("exception", baudrates[i])
          /\ i' = i + 1
          /\ UNCHANGED <<pc, port_handler, open_handles, opened>>
    /\ UNCHANGED <<env, motor_id, next_read, npings, ping_result,
                   successful_communications, motors_at_baudrate,
                   found_motors, ret, responded, reads, calls, events>>

\* Mutant of ProberWith: the serial handle is not released.
ProberWith_NoRelease ==
    /\ InProber /\ pc = "with"
    /\ Emit("connection_successful", baudrates[i])
    /\ i' = i + 1
    /\ pc' = "loop"
    /\ UNCHANGED <<env, motor_id, next_read, npings, port_handler,
                   open_handles, ping_result, successful_communications,
                   motors_at_baudrate, found_motors, ret, tried, opened,
                   responded, reads, calls, events>>

\* the body of the with-block prints the success; leaving it closes the port
ProberWith ==
    /\ InProber /\ pc = "with"
    /\ Emit("connection_successful", baudrates[i])
    /\ port_handler' = "closed"
    /\ open_handles' = open_handles - 1
    /\ i' = i + 1
    /\ pc' = "loop"
    /\ UNCHANGED <<env, motor_id, next_read, npings, ping_result,
                   successful_communications, motors_at_baudrate,
                   found_motors, ret, tried, opened, responded, reads, calls,
                   events>>

\* the loop is exhausted: the function falls off its end
ProberReturn ==
    /\ InProber /\ pc = "loop" /\ i > Len(baudrates)
    /\ ret' = None
    /\ pc' = "done"
    /\ UNCHANGED <<env, motor_id, i, next_read, npings, port_handler,
                   open_handles, ping_result, successful_communications,
                   motors_at_baudrate, found_motors, stdout, tried, opened,
                   responded, reads, calls, events>>

(***************************************************************************)
(* check_feetech_motor_baudrate(port, motor_id)                            *)
(***************************************************************************)
InPinger == routine = "check_feetech_motor_baudrate"

test_baudrate == pinger_test_baudrates[i]

\* except Exception as e: print(f"Error testing ..."); continue
\* Mutant of PingerExcept: the candidate that raised is tried again.
PingerExcept_Retry ==
    /\ Emit("error", test_baudrate)
    /\ i' = i
    /\ pc' = "loop"

PingerExcept ==
    /\ Emit("error", test_baudrate)
    /\ i' = i + 1
    /\ pc' = "loop"

\* the head of an iteration: import scservo_sdk, PortHandler(port),
\* PacketHandler(0)
PingerBegin ==
    /\ InPinger /\ pc = "loop" /\ i <= Len(pinger_test_baudrates)
    /\ tried' = Append(tried, test_baudrate)
    /\ npings' = 0
    /\ UNCHANGED opened
    /\ IF SdkMissing
         THEN /\ Emit("install_hint", 0)
              /\ ret' = None
              /\ pc' = "done"
              /\ UNCHANGED <<i, port_handler, events>>
         ELSE \/ /\ port_handler' = "created"
                 /\ pc' = "open"
                 /\ UNCHANGED <<i, ret, stdout, events>>
              \/ /\ MayFail /\ Event
                 /\ PingerExcept
                 /\ UNCHANGED <<ret, port_handler>>
    /\ UNCHANGED <<env, motor_id, next_read, open_handles, ping_result,
                   successful_communications, motors_at_baudrate,
                   found_motors, responded, reads, calls>>

\* if not port_handler.openPort(): print(...); continue
PingerOpen_FallsThrough ==
    /\ InPinger /\ pc = "open"
    /\ \/ /\ Call("openPort")
          /\ port_handler' = "open"
          /\ opened' = Append(opened, test_baudrate)
          /\ open_handles' = open_handles + 1
          /\ pc' = "setBaudRate"
          /\ UNCHANGED <<i, stdout, events>>
       \/ /\ Call("openPort")
          /\ MayFail /\ Event
          /\ Emit("failed_to_open", test_baudrate)
          /\ pc' = "setBaudRate"
          /\ UNCHANGED <<i, port_handler, open_handles, opened>>
       \/ /\ Call("openPort")
          /\ MayFail /\ Event
          /\ PingerExcept
          /\ UNCHANGED <<port_handler, open_handles, opened>>
    /\ UNCHANGED <<env, motor_id, next_read, npings, ping_result,
                   successful_communications, motors_at_baudrate,
                   found_motors, ret, tried, responded, reads>>

PingerOpen ==
    /\ InPinger /\ pc = "open"
    /\ \/ /\ Call("openPort")
          /\ port_handler' = "open"
          /\ opened' = Append(opened, test_baudrate)
          /\ open_handles' = open_handles + 1
          /\ pc' = "setBaudRate"
          /\ UNCHANGED <<i, stdout, events>>
       \/ /\ Call("openPort")
          /\ MayFail /\ Event
          /\ Emit("failed_to_open", test_baudrate)
          /\ i' = i + 1
          /\ pc' = "loop"
          /\ UNCHANGED <<port_handler, open_handles, opened>>
       \/ /\ Call("openPort")
          /\ MayFail /\ Event
          /\ PingerExcept
          /\ UNCHANGED <<port_handler, open_handles, opened>>
    /\ UNCHANGED <<env, motor_id, next_read, npings, ping_result,
                   successful_communications, motors_at_baudrate,
                   found_motors, ret, tried, responded, reads>>

\* port_handler.setBaudRate(test_baudrate)
PingerSetBaudRate ==
    /\ InPinger /\ pc = "setBaudRate"
    /\ \/ /\ Call("setBaudRate")
          /\ pc' = "ping"
          /\ UNCHANGED <<i, stdout, events>>
       \/ /\ Call("setBaudRate")
          /\ MayFail /\ Event
          /\ PingerExcept
    /\ UNCHANGED <<env, motor_id, next_read, npings, port_handler,
                   open_handles, ping_result, successful_communications,
                   motors_at_baudrate, found_motors, ret, tried, opened,
                   responded, reads>>

\* model_number, comm, error = packet_handler.ping(port_handler, motor_id)
PingerPing ==
    /\ InPinger /\ pc = "ping"
    /\ npings' = npings + 1
    /\ \/ /\ Call("ping")
          /\ MayFail /\ Event
          /\ ping_result' = <<motor_model>>
          /\ responded' = responded \cup {<<test_baudrate, motor_id>>}
          /\ Emit("motor_responds", test_baudrate)
          /\ pc' = "read"
          /\ UNCHANGED i
       \/ /\ Call("ping")
          /\ pc' = "close"
          /\ UNCHANGED <<i, ping_result, responded, stdout, events>>
       \/ /\ Call("ping")
          /\ MayFail /\ Event
          /\ PingerExcept
          /\ UNCHANGED <<ping_result, responded>>
    /\ UNCHANGED <<env, motor_id, next_read, port_handler, open_handles,
                   successful_communications, motors_at_baudrate,
                   found_motors, ret, tried, opened, reads>>

\* Mutant of ReadRecord: the two baud-rate fields are swapped.
ReadRecord_Swapped(rate, baudrate_value, model_number) ==
    [communication_baudrate |-> pinger_feetech_baudrates(baudrate_value),
     configured_baudrate |-> rate,
     register_value |-> baudrate_value,
     model_number |-> model_number,
     model_name |-> ModelName(model_number)]

\* the record appended when the register read succeeded
ReadRecord(rate, baudrate_value, model_number) ==
    [communication_baudrate |-> rate,
     configured_baudrate |-> pinger_feetech_baudrates(baudrate_value),
     register_value |-> baudrate_value,
     model_number |-> model_number,
     model_name |-> ModelName(model_number)]

\* the record appended when the register read failed
UnreadRecord(rate, model_number) ==
    [communication_baudrate |-> rate,
     configured_baudrate |-> UnableToRead,
     register_value |-> NoValue,
     model_number |-> model_number,
     model_name |-> "Unknown"]

\* if test_baudrate == configured_baudrate: print(match) else: print(differs)
MatchLine(rate, configured_baudrate) ==
    IF rate = configured_baudrate THEN "matches_configured"
    ELSE "differs_from_configured"

\* baudrate_value, comm2, error2 = packet_handler.read1ByteTxRx(.., motor_id, 6)
PingerRead ==
    /\ InPinger /\ pc = "read"
    /\ \/ /\ Call("read1ByteTxRx")
          /\ Emit(MatchLine(test_baudrate,
                           pinger_feetech_baudrates(motor_baud_reg)),
                 test_baudrate)
          /\ successful_communications' =
               Append(successful_communications,
                      ReadRecord(test_baudrate, motor_baud_reg, ping_result[1]))
          /\ reads' = Append(reads, <<test_baudrate, 6, "ok">>)
          /\ pc' = "close"
          /\ UNCHANGED <<i, events>>
       \/ /\ Call("read1ByteTxRx")
          /\ MayFail /\ Event
          /\ Emit("failed_to_read", test_baudrate)
          /\ successful_communications' =
               Append(successful_communications,
                      UnreadRecord(test_baudrate, ping_result[1]))
          /\ reads' = Append(reads, <<test_baudrate, 6, "failed">>)
          /\ pc' = "close"
          /\ UNCHANGED i
       \/ /\ Call("read1ByteTxRx")
          /\ MayFail /\ Event
          /\ reads' = Append(reads, <<test_baudrate, 6, "raised">>)
          /\ PingerExcept
          /\ UNCHANGED successful_communications
    /\ UNCHANGED <<env, motor_id, next_read, npings, port_handler,
                   open_handles, ping_result, motors_at_baudrate,
                   found_motors, ret, tried, opened, responded>>

\* port_handler.closePort(), the last statement of the try block
PingerClose ==
    /\ InPinger /\ pc = "close"
    /\ Call("closePort")
    /\ port_handler' = "closed"
    /\ open_handles' = open_handles - 1
    /\ i' = i + 1
    /\ pc' = "loop"
    /\ UNCHANGED <<env, motor_id, next_read, npings, ping_result,
                   successful_communications, motors_at_baudrate,
                   found_motors, ret, stdout, tried, opened, responded,
                   reads, events>>

\* Mutant of FirstCommunication: the last record is returned.
FirstCommunication_Last(communications) == communications[Len(communications)]

\* return successful_communications[0]
FirstCommunication(communications) == communications[1]

\* if successful_communications: ... return successful_communications[0]
\* else: print("Motor not found at any baudrate"); return None
PingerReturn ==
    /\ InPinger /\ pc = "loop" /\ i > Len(pinger_test_baudrates)
    /\ IF successful_communications # <<>>
         THEN /\ Emit("summary", Len(successful_communications))
              /\ ret' = Record(FirstCommunication(successful_communications))
         ELSE /\ Emit("motor_not_found", 0)
              /\ ret' = None
    /\ pc' = "done"
    /\ UNCHANGED <<env, motor_id, i, next_read, npings, port_handler,
                   open_handles, ping_result, successful_communications,
                   motors_at_baudrate, found_motors, tried, opened,
                   responded, reads, calls, events>>

(***************************************************************************)
(* scan_feetech_bus(port)                                                  *)
(***************************************************************************)
InScanner == routine = "scan_feetech_bus"

scan_baudrate == scan_feetech_baudrates[i]

\* except Exception as e: print(f"Error scanning at ..."); continue
ScanExcept ==
    /\ Emit("error", scan_baudrate)
    /\ i' = i + 1
    /\ pc' = "loop"

\* the head of an iteration: import scservo_sdk, PortHandler(port),
\* PacketHandler(0)
ScanBegin ==
    /\ InScanner /\ pc = "loop" /\ i <= Len(scan_feetech_baudrates)
    /\ tried' = Append(tried, scan_baudrate)
    /\ npings' = 0
    /\ UNCHANGED opened
    /\ IF SdkMissing
         THEN /\ Emit("install_hint", 0)
              /\ ret' = None
              /\ pc' = "done"
              /\ UNCHANGED <<i, port_handler, events>>
         ELSE \/ /\ port_handler' = "created"
                 /\ pc' = "open"
                 /\ UNCHANGED <<i, ret, stdout, events>>
              \/ /\ MayFail /\ Event
                 /\ ScanExcept
                 /\ UNCHANGED <<ret, port_handler>>
    /\ UNCHANGED <<env, motor_id, next_read, open_handles, ping_result,
                   successful_communications, motors_at_baudrate,
                   found_motors, responded, reads, calls>>

\* if not port_handler.openPort(): continue
ScanOpen_FallsThrough ==
    /\ InScanner /\ pc = "open"
    /\ \/ /\ Call("openPort")
          /\ port_handler' = "open"
          /\ opened' = Append(opened, scan_baudrate)
          /\ open_handles' = open_handles + 1
          /\ pc' = "setBaudRate"
          /\ UNCHANGED <<i, stdout, events>>
       \/ /\ Call("openPort")
          /\ MayFail /\ Event
          /\ pc' = "setBaudRate"
          /\ UNCHANGED <<i, port_handler, open_handles, opened, stdout>>
       \/ /\ Call("openPort")
          /\ MayFail /\ Event
          /\ ScanExcept
          /\ UNCHANGED <<port_handler, open_handles, opened>>
    /\ UNCHANGED <<env, motor_id, next_read, npings, ping_result,
                   successful_communications, motors_at_baudrate,
                   found_motors, ret, tried, responded, reads>>

ScanOpen ==
    /\ InScanner /\ pc = "open"
    /\ \/ /\ Call("openPort")
          /\ port_handler' = "open"
          /\ opened' = Append(opened, scan_baudrate)
          /\ open_handles' = open_handles + 1
          /\ pc' = "setBaudRate"
          /\ UNCHANGED <<i, stdout, events>>
       \/ /\ Call("openPort")
          /\ MayFail /\ Event
          /\ i' = i + 1
          /\ pc' = "loop"
          /\ UNCHANGED <<port_handler, open_handles, opened, stdout>>
       \/ /\ Call("openPort")
          /\ MayFail /\ Event
          /\ ScanExcept
          /\ UNCHANGED <<port_handler, open_handles, opened>>
    /\ UNCHANGED <<env, motor_id, next_read, npings, ping_result,
                   successful_communications, motors_at_baudrate,
                   found_motors, ret, tried, responded, reads>>

\* port_handler.setBaudRate(test_baudrate)
ScanSetBaudRate ==
    /\ InScanner /\ pc = "setBaudRate"
    /\ \/ /\ Call("setBaudRate")
          /\ pc' = "ping"
          /\ UNCHANGED <<i, stdout, events>>
       \/ /\ Call("setBaudRate")
          /\ MayFail /\ Event
          /\ ScanExcept
    /\ UNCHANGED <<env, motor_id, next_read, npings, port_handler,
                   open_handles, ping_result, successful_communications,
                   motors_at_baudrate, found_motors, ret, tried, opened,
                   responded, reads>>

\* motor_info = {"id": ..., "model_number": ..., "model_name": ..., "baudrate": ...}
\* Mutant of MotorInfo: the record carries the first candidate rate.
MotorInfo_FirstRate(id, model_number, rate) ==
    [id |-> id,
     model_number |-> model_number,
     model_name |-> ModelName(model_number),
     baudrate |-> scan_feetech_baudrates[1]]

MotorInfo(id, model_number, rate) ==
    [id |-> id,
     model_number |-> model_number,
     model_name |-> ModelName(model_number),
     baudrate |-> rate]

\* motors_at_baudrate = []; for motor_id in range(1, 21): ping; if comm ==
\* COMM_SUCCESS and error == 0: motors_at_baudrate.append(motor_info).
\* The loop from motor_id = id up to and including motor_id = last, the
\* motors of `answering` being those whose ping reports success.
RECURSIVE PingIds(_, _, _, _, _)
PingIds(id, last, answering, model_number, rate) ==
    IF id > last THEN <<>>
    ELSE IF id \in answering
      THEN <<MotorInfo(id, model_number, rate)>>
             \o PingIds(id + 1, last, answering, model_number, rate)
      ELSE PingIds(id + 1, last, answering, model_number, rate)

FirstScanId == 1
LastScanId == 20

\* The ping loop over the IDs of one rate.  The pings of the motors of
\* `answering` report success, the others report no answer; all 20 pings
\* return, or the ping of motor `raising` raises an exception.
ScanPingIds ==
    /\ InScanner /\ pc = "ping"
    /\ \/ \E answering \in SUBSET LiveIds :
            /\ events + Cardinality(answering) <= MaxEvents
            /\ events' = events + Cardinality(answering)
            /\ motors_at_baudrate' =
                 PingIds(FirstScanId, LastScanId, answering, motor_model,
                         scan_baudrate)
            /\ responded' =
                 responded \cup {<<scan_baudrate, id>> : id \in answering}
            /\ motor_id' = LastScanId
            /\ npings' = LastScanId - FirstScanId + 1
            /\ pc' = "close"
            /\ Call("ping")
            /\ UNCHANGED <<i, stdout>>
       \/ \E raising \in LiveIds \cup {LastScanId} :
          \E answering \in SUBSET {id \in LiveIds : id < raising} :
            /\ events + Cardinality(answering) + 1 <= MaxEvents
            /\ events' = events + Cardinality(answering) + 1
            /\ motors_at_baudrate' =
                 PingIds(FirstScanId, raising - 1, answering, motor_model,
                         scan_baudrate)
            /\ responded' =
                 responded \cup {<<scan_baudrate, id>> : id \in answering}
            /\ motor_id' = raising
            /\ npings' = raising - FirstScanId + 1
            /\ Call("ping")
            /\ ScanExcept
    /\ UNCHANGED <<env, next_read, port_handler, open_handles, ping_result,
                   successful_communications, found_motors, ret, tried,
                   opened, reads>>

\* found_motors[test_baudrate] = motors_at_baudrate
SetItem(mapping, key, value) ==
    [x \in DOMAIN mapping \cup {key} |-> IF x = key THEN value ELSE mapping[x]]

\* Mutant of StoreMotors: the list is stored even when it is empty.
StoreMotors_Always(mapping, rate, motors) == SetItem(mapping, rate, motors)

\* if motors_at_baudrate: found_motors[test_baudrate] = motors_at_baudrate
StoreMotors(mapping, rate, motors) ==
    IF motors # <<>> THEN SetItem(mapping, rate, motors) ELSE mapping

\* the end of an iteration: the motors found are stored, then
\* port_handler.closePort()
ScanClose ==
    /\ InScanner /\ pc = "close"
    /\ Call("closePort")
    /\ found_motors' =
         StoreMotors(found_motors, scan_baudrate, motors_at_baudrate)
    /\ port_handler' = "closed"
    /\ open_handles' = open_handles - 1
    /\ i' = i + 1
    /\ pc' = "loop"
    /\ UNCHANGED <<env, motor_id, next_read, npings, ping_result,
                   successful_communications, motors_at_baudrate, ret,
                   stdout, tried, opened, responded, reads, events>>

\* sum(len(motors) for motors in found_motors.values())
RECURSIVE TotalFrom(_, _)
TotalFrom(mapping, keys) ==
    IF keys = {} THEN 0
    ELSE LET key == CHOOSE x \in keys : TRUE
         IN  Len(mapping[key]) + TotalFrom(mapping, keys \ {key})

\* print(f"Scan complete. Found {...} motors total."); return found_motors
ScanReturn ==
    /\ InScanner /\ pc = "loop" /\ i > Len(scan_feetech_baudrates)
    /\ Emit("scan_complete", TotalFrom(found_motors, DOMAIN found_motors))
    /\ ret' = Mapping(found_motors)
    /\ pc' = "done"
    /\ UNCHANGED <<env, motor_id, i, next_read, npings, port_handler,
                   open_handles, ping_result, successful_communications,
                   motors_at_baudrate, found_motors, tried, opened,
                   responded, reads, calls, events>>

(***************************************************************************)
(* check_feetech_motor_detailed(port, motor_id)                            *)
(***************************************************************************)
InDetailed == routine = "check_feetech_motor_detailed"

detailed_baudrate == detailed_feetech_baudrates[i]

\* the outer handler: except Exception as e: print(f"Error: {e}"); return False
DetailedExcept ==
    /\ Emit("error", 0)
    /\ ret' = Bool(FALSE)
    /\ pc' = "done"

\* try: import scservo_sdk as scs ... except ImportError: print the
\* installation hint; return False
DetailedImport ==
    /\ InDetailed /\ pc = "import"
    /\ IF SdkMissing
         THEN /\ Emit("install_hint", 0)
              /\ ret' = Bool(FALSE)
              /\ pc' = "done"
         ELSE /\ pc' = "loop"
              /\ UNCHANGED <<ret, stdout>>
    /\ UNCHANGED <<env, motor_id, i, next_read, npings, port_handler,
                   open_handles, ping_result, successful_communications,
                   motors_at_baudrate, found_motors, tried, opened,
                   responded, reads, calls, events>>

\* for test_baudrate in feetech_baudrates: PortHandler(port), PacketHandler(0)
DetailedBegin ==
    /\ InDetailed /\ pc = "loop" /\ i <= Len(detailed_feetech_baudrates)
    /\ tried' = Append(tried, detailed_baudrate)
    /\ npings' = 0
    /\ UNCHANGED opened
    /\ \/ /\ port_handler' = "created"
          /\ pc' = "open"
          /\ UNCHANGED <<ret, stdout, events>>
       \/ /\ MayFail /\ Event
          /\ DetailedExcept
          /\ UNCHANGED port_handler
    /\ UNCHANGED <<env, motor_id, i, next_read, open_handles, ping_result,
                   successful_communications, motors_at_baudrate,
                   found_motors, responded, reads, calls>>

\* if not port_handler.openPort(): continue
DetailedOpen ==
    /\ InDetailed /\ pc = "open"
    /\ \/ /\ Call("openPort")
          /\ port_handler' = "open"
          /\ opened' = Append(opened, detailed_baudrate)
          /\ open_handles' = open_handles + 1
          /\ pc' = "setBaudRate"
          /\ UNCHANGED <<i, ret, stdout, events>>
       \/ /\ Call("openPort")
          /\ MayFail /\ Event
          /\ i' = i + 1
          /\ pc' = "loop"
          /\ UNCHANGED <<port_handler, open_handles, opened, ret, stdout>>
       \/ /\ Call("openPort")
          /\ MayFail /\ Event
          /\ DetailedExcept
          /\ UNCHANGED <<i, port_handler, open_handles, opened>>
    /\ UNCHANGED <<env, motor_id, next_read, npings, ping_result,
                   successful_communications, motors_at_baudrate,
                   found_motors, tried, responded, reads>>

\* port_handler.setBaudRate(test_baudrate)
DetailedSetBaudRate ==
    /\ InDetailed /\ pc = "setBaudRate"
    /\ \/ /\ Call("setBaudRate")
          /\ pc' = "ping"
          /\ UNCHANGED <<ret, stdout, events>>
       \/ /\ Call("setBaudRate")
          /\ MayFail /\ Event
          /\ DetailedExcept
    /\ UNCHANGED <<env, motor_id, i, next_read, npings, port_handler,
                   open_handles, ping_result, successful_communications,
                   motors_at_baudrate, found_motors, tried, opened,
                   responded, reads>>

\* model_number, comm, error = packet_handler.ping(port_handler, motor_id)
DetailedPing ==
    /\ InDetailed /\ pc = "ping"
    /\ npings' = npings + 1
    /\ \/ /\ Call("ping")
          /\ MayFail /\ Event
          /\ ping_result' = <<motor_model>>
          /\ responded' = responded \cup {<<detailed_baudrate, motor_id>>}
          /\ Emit("motor_found", detailed_baudrate)
          /\ next_read' = 1
          /\ pc' = "reads"
          /\ UNCHANGED ret
       \/ /\ Call("ping")
          /\ pc' = "close"
          /\ UNCHANGED <<next_read, ping_result, responded, ret, stdout,
                         events>>
       \/ /\ Call("ping")
          /\ MayFail /\ Event
          /\ DetailedExcept
          /\ UNCHANGED <<next_read, ping_result, responded>>
    /\ UNCHANGED <<env, motor_id, i, port_handler, open_handles,
                   successful_communications, motors_at_baudrate,
                   found_motors, tried, opened, reads>>

\* Mutant of DetailedReadExcept: without the inner try the exception reaches
\* the outer handler.
DetailedReadExcept_Propagates == DetailedExcept

\* the inner handler: except Exception as e: print(f"Error reading motor
\* registers: {e}"), after which the routine goes on to closePort and return
DetailedReadExcept ==
    /\ Emit("error_reading_registers", detailed_baudrate)
    /\ pc' = "close_found"
    /\ UNCHANGED ret

\* the reads inside the inner try, one per step: read1ByteTxRx at 6, 5, 0, 1
\* and 40, read2ByteTxRx at 9, 11 and 56; the value read at 6 is decoded with
\* baudrate_values and printed
DetailedRead ==
    /\ InDetailed /\ pc = "reads" /\ next_read <= Len(DetailedReads)
    /\ \/ /\ Call("read")
          /\ reads' = Append(reads, <<detailed_baudrate,
                                       DetailedReads[next_read], "ok">>)
          /\ next_read' = next_read + 1
          /\ pc' = IF next_read = Len(DetailedReads) THEN "close_found"
                   ELSE "reads"
          /\ stdout' =
               IF DetailedReads[next_read] = 6
                 THEN Append(stdout, <<"configured_baudrate",
                                       baudrate_values(motor_baud_reg)>>)
                 ELSE stdout
          /\ UNCHANGED <<ret, events>>
       \/ /\ Call("read")
          /\ MayFail /\ Event
          /\ reads' = Append(reads, <<detailed_baudrate,
                                       DetailedReads[next_read], "raised">>)
          /\ DetailedReadExcept
          /\ UNCHANGED next_read
    /\ UNCHANGED <<env, motor_id, i, npings, port_handler, open_handles,
                   ping_result, successful_communications,
                   motors_at_baudrate, found_motors, tried, opened,
                   responded>>

\* Mutant of DetailedCloseFound: the return is missing, the loop goes on.
DetailedCloseFound_NoReturn ==
    /\ InDetailed /\ pc = "close_found"
    /\ Call("closePort")
    /\ port_handler' = "closed"
    /\ open_handles' = open_handles - 1
    /\ i' = i + 1
    /\ pc' = "loop"
    /\ UNCHANGED <<env, motor_id, next_read, npings, ping_result,
                   successful_communications, motors_at_baudrate,
                   found_motors, ret, stdout, tried, opened, responded,
                   reads, events>>

\* port_handler.closePort(); return True
DetailedCloseFound ==
    /\ InDetailed /\ pc = "close_found"
    /\ Call("closePort")
    /\ port_handler' = "closed"
    /\ open_handles' = open_handles - 1
    /\ ret' = Bool(TRUE)
    /\ pc' = "done"
    /\ UNCHANGED <<env, motor_id, i, next_read, npings, ping_result,
                   successful_communications, motors_at_baudrate,
                   found_motors, stdout, tried, opened, responded, reads,
                   events>>

\* port_handler.closePort() at the end of an iteration whose ping failed
DetailedClose ==
    /\ InDetailed /\ pc = "close"
    /\ Call("closePort")
    /\ port_handler' = "closed"
    /\ open_handles' = open_handles - 1
    /\ i' = i + 1
    /\ pc' = "loop"
    /\ UNCHANGED <<env, motor_id, next_read, npings, ping_result,
                   successful_communications, motors_at_baudrate,
                   found_motors, ret, stdout, tried, opened, responded,
                   reads, events>>

\* print("Motor not found at any baudrate"); return False
DetailedReturn ==
    /\ InDetailed /\ pc = "loop" /\ i > Len(detailed_feetech_baudrates)
    /\ Emit("motor_not_found", 0)
    /\ ret' = Bool(FALSE)
    /\ pc' = "done"
    /\ UNCHANGED <<env, motor_id, i, next_read, npings, port_handler,
                   open_handles, ping_result, successful_communications,
                   motors_at_baudrate, found_motors, tried, opened,
                   responded, reads, calls, events>>

Next ==
    \/ ProberOpen \/ ProberWith \/ ProberReturn
    \/ PingerBegin \/ PingerOpen \/ PingerSetBaudRate \/ PingerPing
    \/ PingerRead \/ PingerClose \/ PingerReturn
    \/ ScanBegin \/ ScanOpen \/ ScanSetBaudRate \/ ScanPingIds
    \/ ScanClose \/ ScanReturn
    \/ DetailedImport \/ DetailedBegin \/ DetailedOpen
    \/ DetailedSetBaudRate \/ DetailedPing \/ DetailedRead
    \/ DetailedCloseFound \/ DetailedClose \/ DetailedReturn

Spec == Init /\ [][Next]_vars

\* Every call into the SDK or pyserial returns, with a value or an exception,
\* and the interpreter goes on to the next statement.
(***************************************************************************)
(* The entry point, if __name__ == "__main__": three calls in a row. The   *)
(* variables of a routine are local to the call, and so are the logs kept  *)
(* of a call; the process keeps the handles a call left open, and the      *)
(* budget of non-default outcomes is one for the three calls.              *)
(***************************************************************************)
test_port == "/dev/tty.usbserial-0001"

\* Mutant of MainSequence: the baud check comes first.
MainSequence_BaudCheckFirst ==
    <<[routine |-> "check_feetech_motor_baudrate", port |-> test_port,
       motor_id |-> 1],
      [routine |-> "scan_feetech_bus", port |-> test_port],
      [routine |-> "check_feetech_motor_detailed", port |-> test_port,
       motor_id |-> 1]>>

MainSequence ==
    <<[routine |-> "scan_feetech_bus", port |-> test_port],
      [routine |-> "check_feetech_motor_baudrate", port |-> test_port,
       motor_id |-> 1],
      [routine |-> "check_feetech_motor_detailed", port |-> test_port,
       motor_id |-> 1]>>

MainInit ==
    /\ routine = "__main__"
    /\ sdk \in BOOLEAN
    /\ motor_id = 1
    /\ motor_model \in ModelNumbers
    /\ motor_baud_reg = 0
    /\ pc = "main"
    /\ i = 1
    /\ next_read = 1
    /\ npings = 0
    /\ port_handler = "none"
    /\ open_handles = 0
    /\ ping_result = <<>>
    /\ successful_communications = <<>>
    /\ motors_at_baudrate = <<>>
    /\ found_motors = <<>>
    /\ ret = Pending
    /\ stdout = <<>>
    /\ tried = <<>>
    /\ opened = <<>>
    /\ responded = {}
    /\ reads = <<>>
    /\ calls = {}
    /\ events = 0
    /\ main_calls = <<>>
    /\ returned = <<>>

\* The next statement of the entry point: the call before it, if any, has
\* returned, its value is dropped, and the next routine is called.
MainCall ==
    /\ pc \in {"main", "done"}
    /\ Len(main_calls) < Len(MainSequence)
    /\ main_calls' = Append(main_calls, MainSequence[Len(main_calls) + 1])
    /\ returned' = IF pc = "done" THEN Append(returned, ret.tag) ELSE returned
    /\ routine' = MainSequence[Len(main_calls) + 1].routine
    /\ motor_id' = 1
    /\ pc' = IF routine' = "check_feetech_motor_detailed" THEN "import"
             ELSE "loop"
    /\ i' = 1
    /\ next_read' = 1
    /\ npings' = 0
    /\ port_handler' = "none"
    /\ ping_result' = <<>>
    /\ successful_communications' = <<>>
    /\ motors_at_baudrate' = <<>>
    /\ found_motors' = <<>>
    /\ ret' = Pending
    /\ stdout' = <<>>
    /\ tried' = <<>>
    /\ opened' = <<>>
    /\ responded' = {}
    /\ reads' = <<>>
    /\ calls' = {}
    /\ UNCHANGED <<sdk, motor_model, motor_baud_reg, open_handles, events>>

MainNext ==
    \/ MainCall
    \/ PingerBegin \/ PingerOpen \/ PingerSetBaudRate \/ PingerPing
    \/ PingerRead \/ PingerClose \/ PingerReturn
    \/ ScanBegin \/ ScanOpen \/ ScanSetBaudRate \/ ScanPingIds
    \/ ScanClose \/ ScanReturn
    \/ DetailedImport \/ DetailedBegin \/ DetailedOpen
    \/ DetailedSetBaudRate \/ DetailedPing \/ DetailedRead
    \/ DetailedCloseFound \/ DetailedClose \/ DetailedReturn

MainSpec == MainInit /\ [][MainNext]_vars

\* The motor's registers are fixed: no branch of a loop depends on them.
FairInit == Init /\ motor_baud_reg = 0 /\ motor_model = 0

FairSpec == FairInit /\ [][Next]_vars /\ WF_vars(Next)

(***************************************************************************)
(* Helpers of the properties.                                              *)
(***************************************************************************)
Range(seq) == {seq[j] : j \in 1 .. Len(seq)}

UsesProtocolHandle ==
    routine \in {"check_feetech_motor_baudrate", "scan_feetech_bus",
                 "check_feetech_motor_detailed"}

\* The candidate list of the routine of this run.
Candidates ==
    CASE InProber -> baudrates
      [] InPinger -> pinger_test_baudrates
      [] InScanner -> scan_feetech_baudrates
      [] InDetailed -> detailed_feetech_baudrates

\* An exception other than ImportError was raised and caught.
Raised == \E j \in 1 .. Len(stdout) : stdout[j][1] \in {"error", "exception"}

(***************************************************************************)
(* C1. In the pinger, the scanner and the register reader, whatever the    *)
(* SDK calls return or raise, at most one handle is open at any moment,    *)
(* every handle opened is closed before the handle of the next candidate   *)
(* rate is opened, and no handle is open when the routine returns.         *)
(***************************************************************************)
C1_OneHandleNoLeak ==
    UsesProtocolHandle =>
        /\ open_handles <= 1
        /\ pc = "open" => open_handles = 0
        /\ pc = "done" => open_handles = 0

(***************************************************************************)
(* C2. When scservo_sdk cannot be imported, the pinger returns None, the   *)
(* scanner None and the register reader False; the installation hint is    *)
(* the only thing reported; no handle is ever constructed or opened, no    *)
(* ping is sent, and no candidate after the first is tried.                *)
(***************************************************************************)
C2_MissingSdkSentinel ==
    (UsesProtocolHandle /\ ~sdk) =>
        /\ port_handler = "none" /\ opened = <<>> /\ open_handles = 0
        /\ npings = 0 /\ responded = {} /\ reads = <<>>
        /\ Len(tried) <= 1
        /\ pc \in {"import", "loop", "done"}
        /\ pc # "done" => (stdout = <<>> /\ tried = <<>> /\ ret = Pending)
        /\ pc = "done" =>
             /\ stdout = << <<"install_hint", 0>> >>
             /\ ret = IF InDetailed THEN Bool(FALSE) ELSE None

C2_Witness ==
    /\ ~sdk /\ InScanner /\ pc = "done" /\ ret = None
    /\ stdout = << <<"install_hint", 0>> >>

(***************************************************************************)
(* C3. In every routine a missing SDK is the only condition that ends the  *)
(* routine before its candidate list is exhausted (or, for the register    *)
(* reader, before a motor is found): with the SDK present, a routine that  *)
(* has returned has tried every candidate rate, or is the register reader  *)
(* returning True.                                                         *)
(***************************************************************************)
C3_OnlyMissingSdkAborts ==
    (pc = "done" /\ sdk) =>
        \/ tried = Candidates
        \/ InDetailed /\ ret = Bool(TRUE)

RespondedOnlyAt(R) == responded = {<<R, motor_id>>}

RespondersAt(B) == {id \in FirstScanId .. LastScanId : <<B, id>> \in responded}

(***************************************************************************)
(* C5. Scanner: when no SDK call raises and every openPort succeeds, the   *)
(* mapping returned has as keys exactly the candidate rates at which some  *)
(* ID of 1..20 answered, and the list under key B holds one record for     *)
(* each ID that answered at B and no other record.                         *)
(***************************************************************************)
C5_ScanMapping ==
    (InScanner /\ pc = "done" /\ sdk /\ ~Raised
       /\ opened = scan_feetech_baudrates) =>
        /\ ret.tag = "mapping"
        /\ DOMAIN ret.val =
             {B \in Range(scan_feetech_baudrates) : RespondersAt(B) # {}}
        /\ \A B \in DOMAIN ret.val :
             /\ {ret.val[B][j].id : j \in 1 .. Len(ret.val[B])} = RespondersAt(B)
             /\ Len(ret.val[B]) = Cardinality(RespondersAt(B))

C5_Witness ==
    /\ InScanner /\ pc = "done" /\ ~Raised /\ opened = scan_feetech_baudrates
    /\ responded = {<<1000000, 3>>, <<1000000, 7>>}
    /\ ret.tag = "mapping"
    /\ DOMAIN ret.val = {1000000}
    /\ Len(ret.val[1000000]) = 2
    /\ ret.val[1000000][1].id = 3
    /\ ret.val[1000000][2].id = 7

IsPrefix(s, t) == Len(s) <= Len(t) /\ s = SubSeq(t, 1, Len(s))

StrictlyDecreasing(seq) == \A j \in 1 .. Len(seq) - 1 : seq[j] > seq[j + 1]

(***************************************************************************)
(* C6. Register reader: the candidate rates are tried from the highest to  *)
(* the lowest; the rate at which the ping answers is the last one tried    *)
(* (no handle is opened and no ping sent at a lower rate afterwards) and   *)
(* the call returns True; when no ping answers and nothing raises, the     *)
(* call returns False after all eight candidates were tried.               *)
(***************************************************************************)
C6_StopsAtFirstSuccess ==
    InDetailed =>
        /\ StrictlyDecreasing(detailed_feetech_baudrates)
        /\ IsPrefix(tried, detailed_feetech_baudrates)
        /\ responded # {} =>
             /\ responded = {<<tried[Len(tried)], motor_id>>}
             /\ opened # <<>> /\ opened[Len(opened)] = tried[Len(tried)]
             /\ npings = 1
             /\ pc \in {"reads", "close_found", "done"}
             /\ pc = "done" => ret = Bool(TRUE)
        /\ (pc = "done" /\ ret = Bool(TRUE)) => responded # {}
        /\ (pc = "done" /\ sdk /\ responded = {} /\ ~Raised) =>
             /\ ret = Bool(FALSE)
             /\ tried = detailed_feetech_baudrates
             /\ Len(tried) = 8

C6_Witness ==
    /\ InDetailed /\ pc = "done" /\ ret = Bool(TRUE)
    /\ tried = <<1000000, 500000, 250000>>
    /\ responded = {<<250000, motor_id>>}

RecordRates ==
    [j \in 1 .. Len(successful_communications) |->
        successful_communications[j].communication_baudrate]

AnsweredAt(r) == <<r, motor_id>> \in responded

AnsweredRates == SelectSeq(pinger_test_baudrates, AnsweredAt)

ReadReturnedAt(r) ==
    <<r, 6, "ok">> \in Range(reads) \/ <<r, 6, "failed">> \in Range(reads)

RecordedRates == SelectSeq(pinger_test_baudrates, ReadReturnedAt)

C8_RegisterDecoded ==
    InPinger =>
        /\ \A j \in 1 .. Len(successful_communications) :
             LET rec == successful_communications[j]
                 C == rec.communication_baudrate
                 expected == <<1000000, 500000, 250000, 128000,
                               115200, 57600, 38400, 19200>>
             IN  rec.register_value \in 0 .. 7 =>
                   /\ rec.configured_baudrate = expected[rec.register_value + 1]
                   /\ rec.register_value = 2 => rec.configured_baudrate = 250000
                   /\ <<"differs_from_configured", C>> \in Range(stdout)
                        <=> C # rec.configured_baudrate
                   /\ <<"matches_configured", C>> \in Range(stdout)
                        <=> C = rec.configured_baudrate
        /\ \A e \in Range(reads) :
             e[3] = "ok" =>
                \E j \in 1 .. Len(successful_communications) :
                    /\ successful_communications[j].communication_baudrate = e[1]
                    /\ successful_communications[j].register_value = motor_baud_reg
        /\ (pc = "done" /\ successful_communications # <<>>) =>
             ret = Record(successful_communications[1])

C8_Witness ==
    /\ InPinger /\ pc = "done"
    /\ ret.tag = "record"
    /\ ret.val.register_value = 2
    /\ ret.val.configured_baudrate = 250000
    /\ ret.val.communication_baudrate = 1000000
    /\ <<"differs_from_configured", 1000000>> \in Range(stdout)

IsSuccess(line) == line[1] = "connection_successful"

RatesOf(lines) == [j \in 1 .. Len(lines) |-> lines[j][2]]

(***************************************************************************)
(* C9. Prober: every candidate rate of the list is attempted once, in list *)
(* order, whatever the earlier outcomes; one outcome is reported per rate; *)
(* a success is reported for exactly the rates whose open succeeded; the   *)
(* handle opened at a rate is released before the open at the next rate.   *)
(***************************************************************************)
C9_ProberSweep ==
    InProber =>
        /\ Cardinality(Range(baudrates)) = Len(baudrates)
        /\ IsPrefix(tried, baudrates)
        /\ open_handles <= 1
        /\ pc = "loop" =>
             /\ open_handles = 0
             /\ RatesOf(stdout) = tried
             /\ RatesOf(SelectSeq(stdout, IsSuccess)) = opened
        /\ pc = "with" =>
             /\ open_handles = 1
             /\ opened[Len(opened)] = tried[Len(tried)]
        /\ pc = "done" =>
             /\ tried = baudrates
             /\ RatesOf(stdout) = baudrates
             /\ RatesOf(SelectSeq(stdout, IsSuccess)) = opened
             /\ open_handles = 0

C9_Witness ==
    /\ InProber /\ pc = "done"
    /\ stdout[1] = <<"serial_exception", 9600>>
    /\ stdout[2] = <<"connection_successful", 19200>>
    /\ stdout[3] = <<"exception", 38400>>
    /\ stdout[8] = <<"connection_successful", 1000000>>

(***************************************************************************)
(* C10. Register reader: the registers are read at 6, 5, 0, 1, 9, 11, 56   *)
(* and 40 in that order; when a read raises, the remaining reads are       *)
(* skipped, the port handle is closed and the call returns True.           *)
(***************************************************************************)
C10_ReadErrorStillTrue ==
    InDetailed =>
        /\ IsPrefix([j \in 1 .. Len(reads) |-> reads[j][2]], DetailedReads)
        /\ \A j \in 1 .. Len(reads) :
             /\ reads[j][1] = tried[Len(tried)]
             /\ reads[j][3] = "raised" =>
                  /\ j = Len(reads)
                  /\ pc \in {"close_found", "done"}
                  /\ pc = "close_found" => open_handles = 1
                  /\ pc = "done" =>
                       /\ ret = Bool(TRUE)
                       /\ port_handler = "closed"
                       /\ open_handles = 0

C10_Witness ==
    /\ InDetailed /\ pc = "done" /\ ret = Bool(TRUE)
    /\ Len(reads) = 3
    /\ reads[3] = <<500000, 0, "raised">>
    /\ port_handler = "closed"

(***************************************************************************)
(* Claims about skipped rates, candidate lists and handle discipline.      *)
(***************************************************************************)
Last(seq) == seq[Len(seq)]

\* openPort returns false: the handle stays unopened and nothing was raised.
OpenReturnsFalse ==
    /\ InPinger \/ InScanner
    /\ pc = "open"
    /\ port_handler' # "open"
    /\ stdout' # Append(stdout, <<"error", Candidates[i]>>)

\* The rates the records of the pinger, or the keys and records of the
\* scanner, carry.
RatesWithRecord ==
    Range(RecordRates)
      \cup DOMAIN found_motors
      \cup {motors_at_baudrate[j].baudrate : j \in 1 .. Len(motors_at_baudrate)}

(***************************************************************************)
(* C11. Pinger and scanner: when openPort fails at a candidate rate, the   *)
(* rate is skipped: setBaudRate, ping and the register read are not called *)
(* at that rate, no record is made for it, and the sweep goes on with the  *)
(* next candidate.                                                         *)
(***************************************************************************)
C11_FailedOpenSkipsRate ==
    /\ [][OpenReturnsFalse =>
            /\ pc' = "loop"
            /\ i' = i + 1
            /\ calls' \ calls \subseteq {<<"openPort", "created">>}
            /\ UNCHANGED <<successful_communications, motors_at_baudrate,
                           found_motors, opened, responded, reads, npings,
                           ret>>]_vars
    /\ []((InPinger \/ InScanner) =>
            /\ pc \in {"setBaudRate", "ping", "read", "close"} =>
                 /\ port_handler = "open"
                 /\ opened # <<>>
                 /\ Last(opened) = Candidates[i]
            /\ RatesWithRecord \subseteq Range(opened))

C11_Witness ==
    /\ InPinger
    /\ stdout = <<<<"failed_to_open", 1000000>>>>
    /\ tried = <<1000000, 500000>>
    /\ opened = <<500000>>
    /\ pc = "ping"

\* The rates of the register codes 0 to 7, in the order of the codes.
RegisterCodeRates ==
    [j \in 1 .. Len(pinger_test_baudrates) |-> pinger_feetech_baudrates(j - 1)]

FullSweep == Len(tried) = Len(Candidates)

(***************************************************************************)
(* C12. The pinger iterates the same candidate list as the prober: the     *)
(* rates tried by the pinger, the scanner and the register reader are      *)
(* rates of the prober's list, 9600 to 1,000,000, all of them after a full *)
(* sweep, and the pinger visits them highest first.                        *)
(***************************************************************************)
C12_Original ==
    /\ Range(tried) \subseteq Range(baudrates)
    /\ FullSweep => Range(tried) = Range(baudrates)
    /\ InPinger => StrictlyDecreasing(tried)

\* C12, amended: the pinger, the scanner and the register reader try the
\* rates of one list of their own, the rates of the register codes 0 to 7,
\* highest first; of the prober's list it has every rate but 9600, and it
\* has 128,000, which the prober's list has not.
C12_ProtocolSweep ==
    /\ InProber => IsPrefix(tried, baudrates)
    /\ ~InProber =>
         /\ IsPrefix(tried, RegisterCodeRates)
         /\ StrictlyDecreasing(tried)
         /\ Range(tried) \ Range(baudrates) \subseteq {128000}
         /\ FullSweep =>
              /\ Range(tried) \ Range(baudrates) = {128000}
              /\ Range(baudrates) \ Range(tried) = {9600}

C12_Witness ==
    /\ InPinger /\ pc = "done"
    /\ FullSweep
    /\ tried[4] = 128000
    /\ ret = None /\ sdk

\* The methods that need an open handle.
OnOpenHandle == {"setBaudRate", "ping", "read1ByteTxRx", "read", "closePort"}

(***************************************************************************)
(* C14. Pinger, scanner and register reader: setBaudRate, ping, the        *)
(* register reads and closePort are only called on a handle whose openPort *)
(* returned success and which is not closed yet; no handle is closed twice *)
(* and closePort is never called on a handle whose open failed.            *)
(***************************************************************************)
C14_CallsOnOpenHandle ==
    UsesProtocolHandle =>
        /\ \A c \in calls :
             /\ c[1] \in OnOpenHandle => c[2] = "open"
             /\ c[1] = "openPort" => c[2] = "created"
        /\ pc \in {"setBaudRate", "ping", "read", "reads", "close",
                   "close_found"} =>
             /\ port_handler = "open"
             /\ opened # <<>>
             /\ Last(opened) = Candidates[i]

C14_Witness ==
    /\ InDetailed /\ pc = "done"
    /\ calls = {<<"openPort", "created">>, <<"setBaudRate", "open">>,
                <<"ping", "open">>, <<"read", "open">>,
                <<"closePort", "open">>}
    /\ tried = <<1000000, 500000>>
    /\ opened = <<500000>>
    /\ port_handler = "closed"

\* The list of motor records belongs under the key B.
WellFormedAt(B, motors) ==
    /\ \A j \in 1 .. Len(motors) :
         /\ motors[j].baudrate = B
         /\ motors[j].id \in FirstScanId .. LastScanId
    /\ \A j \in 1 .. Len(motors) - 1 : motors[j].id < motors[j + 1].id

WellFormedMapping(mapping) ==
    \A B \in DOMAIN mapping :
        /\ B \in Range(scan_feetech_baudrates)
        /\ mapping[B] # <<>>
        /\ WellFormedAt(B, mapping[B])

(***************************************************************************)
(* C15. Scanner, at every point: every motor record under key B of the     *)
(* result mapping has baudrate B and an id in 1..20, the ids of one list   *)
(* are strictly increasing, no key maps to an empty list and every key is  *)
(* one of the eight candidate rates.                                       *)
(***************************************************************************)
C15_MappingWellFormed ==
    InScanner =>
        /\ WellFormedMapping(found_motors)
        /\ pc = "close" => WellFormedAt(scan_baudrate, motors_at_baudrate)
        /\ ret.tag = "mapping" =>
             /\ ret.val = found_motors
             /\ WellFormedMapping(ret.val)

C15_Witness ==
    /\ InScanner /\ pc = "done"
    /\ ret.tag = "mapping"
    /\ DOMAIN ret.val = {500000}
    /\ Len(ret.val[500000]) = 2
    /\ ret.val[500000][1].id = 3
    /\ ret.val[500000][2].id = 7

NoDuplicates(seq) ==
    \A j, n \in 1 .. Len(seq) : seq[j] = seq[n] => j = n

\* The most pings one candidate attempt of the routine sends.
MaxPings == IF InScanner THEN LastScanId - FirstScanId + 1 ELSE 1

(***************************************************************************)
(* C16. Every SDK call returning, each routine eventually returns: the     *)
(* pinger and the register reader after at most 8 candidate attempts with  *)
(* at most one ping each, the scanner after at most 8 attempts with at     *)
(* most 20 pings each; no candidate rate is attempted twice in one call.   *)
(***************************************************************************)
C16_Terminates ==
    /\ <>(pc = "done" /\ ret # Pending)
    /\ [](/\ Len(tried) <= Len(Candidates)
          /\ Len(Candidates) = 8
          /\ NoDuplicates(tried)
          /\ npings <= MaxPings
          /\ UsesProtocolHandle =>
               Cardinality(responded) <= Len(tried) * MaxPings)

C16_Witness ==
    /\ InScanner /\ pc = "done" /\ ret.tag = "mapping"
    /\ Len(tried) = 8
    /\ npings = 20
    /\ Len(opened) = 7

\* A call has just begun: nothing of its body has run.
CallBegins ==
    /\ pc \in {"loop", "import"}
    /\ tried = <<>>

(***************************************************************************)
(* C13. The entry point runs the bus scan, then the baud check, then the   *)
(* detailed check, each once, in that order, all on the same hardcoded     *)
(* port, with motor ID 1; a later routine runs whatever the earlier one    *)
(* returned, the not-found sentinel included, and shares no state with it. *)
(***************************************************************************)
C13_MainSequence ==
    /\ Len(main_calls) <= 3
    /\ Len(main_calls) >= 1 =>
         main_calls[1] =
           [routine |-> "scan_feetech_bus", port |-> "/dev/tty.usbserial-0001"]
    /\ Len(main_calls) >= 2 =>
         main_calls[2] =
           [routine |-> "check_feetech_motor_baudrate",
            port |-> "/dev/tty.usbserial-0001", motor_id |-> 1]
    /\ Len(main_calls) >= 3 =>
         main_calls[3] =
           [routine |-> "check_feetech_motor_detailed",
            port |-> "/dev/tty.usbserial-0001", motor_id |-> 1]
    /\ main_calls # <<>> =>
         /\ routine = Last(main_calls).routine
         /\ (InPinger \/ InDetailed) /\ pc # "done" => motor_id = 1
         /\ Len(returned) = Len(main_calls) - 1
    /\ (pc \in {"main", "done"} /\ Len(main_calls) < 3) => ENABLED MainCall
    /\ CallBegins =>
         /\ i = 1 /\ next_read = 1 /\ npings = 0
         /\ port_handler = "none"
         /\ ping_result = <<>>
         /\ successful_communications = <<>>
         /\ motors_at_baudrate = <<>>
         /\ found_motors = <<>>
         /\ ret = Pending

C13_Witness ==
    /\ Len(main_calls) = 3
    /\ InDetailed /\ pc = "done" /\ ret = Bool(FALSE)
    /\ returned = <<"mapping", "None">>
    /\ sdk

====
